---- MODULE Spec2Model ----
(***************************************************************************)
(* State-machine model of next_identity_oidc: the OIDC client              *)
(* (client.py) and the session state machine of its two web adapters       *)
(* (flask_integration.py, fastapi_integration.py), driven by the routes of *)
(* the example applications (examples/flask_app.py, fastapi_app.py).       *)
(*                                                                         *)
(* Encoding of Python values:                                              *)
(*   - a dict is a function from its keys to its values;                   *)
(*   - None (for string-valued slots) is the string None;                  *)
(*   - Optional[dict] results are sequences of length <= 1;                *)
(*   - a URL is [base, query], query being the ordered (key, value) pairs  *)
(*     handed to urlencode;                                                *)
(*   - a call that may raise returns [ok, value, error].                   *)
(***************************************************************************)
EXTENDS Integers, Sequences, FiniteSets, TLC

(* ------------------------------ bounds -------------------------------- *)

NumTokens == 1
NumUsers == 1
NumUrls == 1

(* ------------------------- Python value helpers ------------------------ *)

None == "None"

Truthy(v) == v # None /\ v # ""

Has(d, k) == k \in DOMAIN d

Get(d, k, default) == IF k \in DOMAIN d THEN d[k] ELSE default

Put(d, k, v) == [x \in (DOMAIN d) \cup {k} |-> IF x = k THEN v ELSE d[x]]

Del(d, k) == [x \in (DOMAIN d) \ {k} |-> d[x]]

Nothing == <<>>

Some(v) == <<v>>

Ok(v) == [ok |-> TRUE, value |-> v, error |-> ""]

Raise(msg) == [ok |-> FALSE, value |-> None, error |-> msg]

Url(base, query) == [base |-> base, query |-> query]

Plain(s) == Url(s, <<>>)

Param(cond, k, v) == IF cond THEN <<<<k, v>>>> ELSE <<>>

(* ------------------------------ inputs -------------------------------- *)

AccessTokens == {"tok" \o ToString(i) : i \in 1..NumTokens}

Claims == {[sub |-> "u" \o ToString(i)] : i \in 1..NumUsers}

Pages == {"/page" \o ToString(i) : i \in 1..NumUrls}

ReturnTos == {"/"} \cup Pages

Codes == {None, "", "code1"}

TokenKeys == {"access_token", "id_token", "refresh_token", "expires_in"}

TokenValues(k) ==
    CASE k = "access_token" -> {None, ""} \cup AccessTokens
      [] k = "id_token" -> {None, "", "idt1"}
      [] k = "refresh_token" -> {"rt1"}
      [] k = "expires_in" -> {"3600"}

\* The key sets of the token responses considered: access_token and id_token
\* each present or not, refresh_token and expires_in present or not together.
TokenKeySets ==
    {K \in SUBSET TokenKeys : ("refresh_token" \in K) = ("expires_in" \in K)}

\* The JSON objects a token endpoint may answer with.
TokenResponses ==
    UNION {{t \in [K -> UNION {TokenValues(k) : k \in K}] :
               \A k \in K : t[k] \in TokenValues(k)} : K \in TokenKeySets}

\* Outcome of one HTTP request: a transport/status failure or a JSON body.
Failed == [status |-> "failed", body |-> <<>>]

Replied(body) == [status |-> "ok", body |-> body]

TokenOutcomes == {Failed} \cup {Replied(t) : t \in TokenResponses}

UserinfoOutcomes == {Failed} \cup {Replied(c) : c \in Claims}

DiscoveryKeys == {"issuer", "token_endpoint", "userinfo_endpoint", "end_session_endpoint"}

\* The discovery documents considered: complete, empty, or lacking one key.
DiscoveryKeySets ==
    {K \in SUBSET DiscoveryKeys : K = {} \/ Cardinality(DiscoveryKeys \ K) <= 1}

DiscoveryDocs == {[k \in K |-> "https://idp.example/" \o k] : K \in DiscoveryKeySets}

HostRoutes == {"index", "login"}

DiscoveryOutcomes == {Failed} \cup {Replied(d) : d \in DiscoveryDocs}

VARIABLES adapter, routes, client, config, session, op, arg, response, handlerRan,
          tokens, userinfo, requests, hadRecord, pendingUrl, call,
          inflight, lastWriter, sessions, solo, actor, twin

vars == <<adapter, routes, client, config, session, op, arg, response, handlerRan,
          tokens, userinfo, requests, hadRecord, pendingUrl, call,
          inflight, lastWriter, sessions, solo, actor, twin>>

\* What the last request served left behind, and the requests in progress.
served == <<op, arg, response, handlerRan, tokens, userinfo, requests, hadRecord,
            pendingUrl, call>>

concurrent == <<inflight, lastWriter, sessions, solo, actor, twin>>

(* ----------------------------- client.py ------------------------------ *)

client_id == "your-client-id"

client_secret == "your-client-secret"

redirect_uri == "http://localhost/auth/callback"

scope == "openid profile email"

discovery_url == "https://idp.example/.well-known/openid-configuration"

DiscoveryRequest ==
    [method |-> "GET", url |-> discovery_url, authorization |-> None, data |-> <<>>]

\* Mutant: a document without one of the four endpoints is refused.
fetch_config_eager(outcome) ==
    IF outcome.status = "failed" \/ DOMAIN outcome.body # DiscoveryKeys
    THEN [ok |-> FALSE, value |-> <<>>, error |-> "Failed to fetch OIDC configuration",
          sent |-> <<DiscoveryRequest>>]
    ELSE [ok |-> TRUE, value |-> outcome.body, error |-> "", sent |-> <<DiscoveryRequest>>]

\* Mutant: the exception of the GET is swallowed, self.config stays None.
fetch_config_swallow(outcome) ==
    IF outcome.status = "failed"
    THEN [ok |-> TRUE, value |-> <<>>, error |-> "", sent |-> <<DiscoveryRequest>>]
    ELSE [ok |-> TRUE, value |-> outcome.body, error |-> "", sent |-> <<DiscoveryRequest>>]

\* outcome is what the discovery endpoint does with the one GET issued here.
fetch_config(outcome) ==
    IF outcome.status = "failed"
    THEN [ok |-> FALSE, value |-> <<>>, error |-> "Failed to fetch OIDC configuration",
          sent |-> <<DiscoveryRequest>>]
    ELSE [ok |-> TRUE, value |-> outcome.body, error |-> "", sent |-> <<DiscoveryRequest>>]

\* `if not self.config`: None or an empty discovery document.
ConfigLoaded(cfg) == DOMAIN cfg # {}

NotLoaded == "OIDC configuration not loaded"

Sent(r, reqs) == [ok |-> r.ok, value |-> r.value, error |-> r.error, sent |-> reqs]

get_auth_url(cfg, state, nonce, path) ==
    IF ~ConfigLoaded(cfg) THEN Raise(NotLoaded)
    ELSE IF ~Has(cfg, "issuer") THEN Raise("KeyError: issuer")
    ELSE Ok(Url(cfg["issuer"] \o path,
                <<<<"client_id", client_id>>, <<"redirect_uri", redirect_uri>>,
                  <<"response_type", "code">>, <<"scope", scope>>>>
                \o Param(Truthy(state), "state", state)
                \o Param(Truthy(nonce), "nonce", nonce)))

get_login_url(cfg, state, nonce) == get_auth_url(cfg, state, nonce, "/authorize")

get_register_url(cfg, state, nonce) == get_auth_url(cfg, state, nonce, "/register")

get_profile_url(cfg, state, nonce) == get_auth_url(cfg, state, nonce, "/personal-details")

TokenRequest(cfg, code) ==
    [method |-> "POST", url |-> cfg["token_endpoint"], authorization |-> None,
     data |-> [grant_type |-> "authorization_code", code |-> code,
               redirect_uri |-> redirect_uri, client_id |-> client_id,
               client_secret |-> client_secret]]

\* Mutant: a failed POST is tried once more.
exchange_code_for_tokens_retry(cfg, code, outcome) ==
    IF ~ConfigLoaded(cfg) THEN Sent(Raise(NotLoaded), <<>>)
    ELSE IF ~Has(cfg, "token_endpoint") THEN Sent(Raise("KeyError: token_endpoint"), <<>>)
    ELSE IF outcome.status = "failed"
         THEN Sent(Raise("Failed to exchange code for tokens"),
                   <<TokenRequest(cfg, code), TokenRequest(cfg, code)>>)
         ELSE Sent(Ok(outcome.body), <<TokenRequest(cfg, code)>>)

\* outcome is what the token endpoint does with the one POST issued here.
exchange_code_for_tokens(cfg, code, outcome) ==
    IF ~ConfigLoaded(cfg) THEN Sent(Raise(NotLoaded), <<>>)
    ELSE IF ~Has(cfg, "token_endpoint") THEN Sent(Raise("KeyError: token_endpoint"), <<>>)
    ELSE IF outcome.status = "failed"
         THEN Sent(Raise("Failed to exchange code for tokens"), <<TokenRequest(cfg, code)>>)
         ELSE Sent(Ok(outcome.body), <<TokenRequest(cfg, code)>>)

\* Mutant: the GET is sent without the Authorization header.
UserinfoRequest_no_header(cfg, access_token) ==
    [method |-> "GET", url |-> cfg["userinfo_endpoint"],
     authorization |-> None, data |-> <<>>]

UserinfoRequest(cfg, access_token) ==
    [method |-> "GET", url |-> cfg["userinfo_endpoint"],
     authorization |-> "Bearer " \o access_token, data |-> <<>>]

\* Mutant: the configuration is not checked before the endpoint is read.
get_userinfo_unchecked(cfg, access_token, outcome) ==
    IF ~Has(cfg, "userinfo_endpoint") THEN Sent(Raise("KeyError: userinfo_endpoint"), <<>>)
    ELSE IF outcome.status = "failed"
         THEN Sent(Raise("Failed to get user info"), <<UserinfoRequest(cfg, access_token)>>)
         ELSE Sent(Ok(outcome.body), <<UserinfoRequest(cfg, access_token)>>)

\* outcome is what the userinfo endpoint does with the one GET issued here.
get_userinfo(cfg, access_token, outcome) ==
    IF ~ConfigLoaded(cfg) THEN Sent(Raise(NotLoaded), <<>>)
    ELSE IF ~Has(cfg, "userinfo_endpoint") THEN Sent(Raise("KeyError: userinfo_endpoint"), <<>>)
    ELSE IF outcome.status = "failed"
         THEN Sent(Raise("Failed to get user info"), <<UserinfoRequest(cfg, access_token)>>)
         ELSE Sent(Ok(outcome.body), <<UserinfoRequest(cfg, access_token)>>)

NoEndSession == "Logout endpoint not found in OIDC configuration"

\* Mutant: `is not None` in place of the truth test on id_token_hint.
get_logout_url_hint_not_none(cfg, id_token_hint, post_logout_redirect_uri) ==
    IF ~ConfigLoaded(cfg) THEN Raise(NotLoaded)
    ELSE IF ~Has(cfg, "end_session_endpoint") THEN Raise(NoEndSession)
    ELSE Ok(Url(cfg["end_session_endpoint"],
                Param(id_token_hint # None, "id_token_hint", id_token_hint)
                \o Param(Truthy(post_logout_redirect_uri),
                         "post_logout_redirect_uri", post_logout_redirect_uri)))

get_logout_url(cfg, id_token_hint, post_logout_redirect_uri) ==
    IF ~ConfigLoaded(cfg) THEN Raise(NotLoaded)
    ELSE IF ~Has(cfg, "end_session_endpoint") THEN Raise(NoEndSession)
    ELSE Ok(Url(cfg["end_session_endpoint"],
                Param(Truthy(id_token_hint), "id_token_hint", id_token_hint)
                \o Param(Truthy(post_logout_redirect_uri),
                         "post_logout_redirect_uri", post_logout_redirect_uri)))

(* ---------------------- urllib.parse.urlencode ------------------------ *)

\* A string as the sequence of its characters: the strings that can occur
\* as a key or a value of the query of an authorization URL.
Spell(s) ==
    CASE s = "client_id" ->
             <<"c", "l", "i", "e", "n", "t", "_", "i", "d">>
      [] s = "redirect_uri" ->
             <<"r", "e", "d", "i", "r", "e", "c", "t", "_", "u", "r", "i">>
      [] s = "response_type" ->
             <<"r", "e", "s", "p", "o", "n", "s", "e", "_", "t", "y", "p", "e">>
      [] s = "scope" ->
             <<"s", "c", "o", "p", "e">>
      [] s = "state" ->
             <<"s", "t", "a", "t", "e">>
      [] s = "nonce" ->
             <<"n", "o", "n", "c", "e">>
      [] s = "your-client-id" ->
             <<"y", "o", "u", "r", "-", "c", "l", "i", "e", "n", "t", "-", "i", "d">>
      [] s = "http://localhost/auth/callback" ->
             <<"h", "t", "t", "p", ":", "/", "/", "l", "o", "c", "a", "l", "h", "o", "s", "t", "/", "a", "u", "t", "h", "/", "c", "a", "l", "l", "b", "a", "c", "k">>
      [] s = "code" ->
             <<"c", "o", "d", "e">>
      [] s = "openid profile email" ->
             <<"o", "p", "e", "n", "i", "d", " ", "p", "r", "o", "f", "i", "l", "e", " ", "e", "m", "a", "i", "l">>
      [] s = "" ->
             <<>>
      [] s = "s1" ->
             <<"s", "1">>
      [] s = "a b" ->
             <<"a", " ", "b">>
      [] s = "&=+%/" ->
             <<"&", "=", "+", "%", "/">>
      [] s = "n1" ->
             <<"n", "1">>

\* The characters quote_plus leaves as they are.
SafeChars ==
    {"a", "b", "c", "d", "e", "f", "g", "h", "i", "j", "k", "l", "m", "n",
     "o", "p", "q", "r", "s", "t", "u", "v", "w", "x", "y", "z", "A", "B",
     "C", "D", "E", "F", "G", "H", "I", "J", "K", "L", "M", "N", "O", "P",
     "Q", "R", "S", "T", "U", "V", "W", "X", "Y", "Z", "0", "1", "2", "3",
     "4", "5", "6", "7", "8", "9", "_", ".", "-", "~"}

\* The escape of the other characters that occur: %XX of the character code.
PercentCode(c) ==
    CASE c = ":" -> <<"%", "3", "A">>
      [] c = "/" -> <<"%", "2", "F">>
      [] c = "?" -> <<"%", "3", "F">>
      [] c = "&" -> <<"%", "2", "6">>
      [] c = "=" -> <<"%", "3", "D">>
      [] c = "+" -> <<"%", "2", "B">>
      [] c = "%" -> <<"%", "2", "5">>

Escaped == {":", "/", "?", "&", "=", "+", "%"}

RECURSIVE quote_plus(_)
quote_plus(cs) ==
    IF cs = <<>> THEN <<>>
    ELSE (IF Head(cs) \in SafeChars THEN <<Head(cs)>>
          ELSE IF Head(cs) = " " THEN <<"+">>
          ELSE PercentCode(Head(cs)))
         \o quote_plus(Tail(cs))

\* urlencode of an ordered list of (key, value) pairs.
RECURSIVE urlencode(_)
urlencode(query) ==
    IF query = <<>> THEN <<>>
    ELSE quote_plus(Spell(query[1][1])) \o <<"=">> \o quote_plus(Spell(query[1][2]))
         \o (IF Len(query) = 1 THEN <<>> ELSE <<"&">> \o urlencode(Tail(query)))

\* The part of f"{auth_endpoint}?{urlencode(params)}" after the "?".
QueryString(url) == urlencode(url.query)

\* str.split(sep): the segments of cs between the occurrences of sep.
RECURSIVE split(_, _)
split(cs, sep) ==
    IF \A i \in DOMAIN cs : cs[i] # sep THEN <<cs>>
    ELSE LET i == CHOOSE j \in DOMAIN cs :
                      cs[j] = sep /\ \A k \in 1..(j - 1) : cs[k] # sep
         IN  <<SubSeq(cs, 1, i - 1)>> \o split(SubSeq(cs, i + 1, Len(cs)), sep)

\* The reading of a query string by a URL parser: unquote_plus of the name
\* and the value of each field.
RECURSIVE unquote_plus(_)
unquote_plus(cs) ==
    IF cs = <<>> THEN <<>>
    ELSE IF Head(cs) = "+" THEN <<" ">> \o unquote_plus(Tail(cs))
    ELSE IF /\ Head(cs) = "%" /\ Len(cs) >= 3
            /\ \E c \in Escaped : PercentCode(c) = SubSeq(cs, 1, 3)
         THEN <<CHOOSE c \in Escaped : PercentCode(c) = SubSeq(cs, 1, 3)>>
              \o unquote_plus(SubSeq(cs, 4, Len(cs)))
    ELSE <<Head(cs)>> \o unquote_plus(Tail(cs))

ParseField(cs) ==
    LET nv == split(cs, "=") IN
    <<unquote_plus(nv[1]),
      unquote_plus(IF Len(nv) = 1 THEN <<>> ELSE SubSeq(cs, Len(nv[1]) + 2, Len(cs)))>>

parse_qsl(cs) ==
    IF cs = <<>> THEN <<>>
    ELSE LET fields == split(cs, "&") IN [i \in DOMAIN fields |-> ParseField(fields[i])]

(* ------------------------- validate_id_token -------------------------- *)

\* Bounds of the ID tokens handed to validate_id_token.
MaxSegments == 5
MaxDigits == 3

\* The base64 alphabet, in the order of the 6-bit values 0..63.
B64Chars ==
    <<"A", "B", "C", "D", "E", "F", "G", "H", "I", "J", "K", "L", "M",
      "N", "O", "P", "Q", "R", "S", "T", "U", "V", "W", "X", "Y", "Z", "a",
      "b", "c", "d", "e", "f", "g", "h", "i", "j", "k", "l", "m", "n", "o",
      "p", "q", "r", "s", "t", "u", "v", "w", "x", "y", "z", "0", "1", "2",
      "3", "4", "5", "6", "7", "8", "9", "+", "/">>

IsB64(c) == \E i \in DOMAIN B64Chars : B64Chars[i] = c

B64Value(c) == (CHOOSE i \in DOMAIN B64Chars : B64Chars[i] = c) - 1

\* Mutant: as many '=' as the length leaves over a multiple of 4.
Padded_by_remainder(payload) == payload \o [i \in 1..(Len(payload) % 4) |-> "="]

\* payload + '=' * (4 - len(payload) % 4)
Padded(payload) == payload \o [i \in 1..(4 - (Len(payload) % 4)) |-> "="]

\* payload.translate({ord('-'): ord('+'), ord('_'): ord('/')})
translate(cs) ==
    [i \in DOMAIN cs |-> IF cs[i] = "-" THEN "+" ELSE IF cs[i] = "_" THEN "/" ELSE cs[i]]

\* binascii.a2b_base64 without strict mode, one character at a time: st is
\* the decoder's state (position in the quad, left-over bits, pad run,
\* bytes so far, and done once the closing padding was read).
B64Step(st, c) ==
    IF st.done THEN st
    ELSE IF c = "=" THEN
        IF st.quad_pos >= 2 /\ st.quad_pos + st.pads + 1 >= 4
        THEN [st EXCEPT !.done = TRUE, !.quad_pos = 0, !.pads = st.pads + 1]
        ELSE IF st.quad_pos >= 2 THEN [st EXCEPT !.pads = st.pads + 1] ELSE st
    ELSE IF ~IsB64(c) THEN st
    ELSE LET v == B64Value(c) IN
         CASE st.quad_pos = 0 ->
                  [st EXCEPT !.pads = 0, !.quad_pos = 1, !.leftchar = v]
           [] st.quad_pos = 1 ->
                  [st EXCEPT !.pads = 0, !.quad_pos = 2, !.leftchar = v % 16,
                             !.bin = Append(st.bin, st.leftchar * 4 + v \div 16)]
           [] st.quad_pos = 2 ->
                  [st EXCEPT !.pads = 0, !.quad_pos = 3, !.leftchar = v % 4,
                             !.bin = Append(st.bin, st.leftchar * 16 + v \div 4)]
           [] st.quad_pos = 3 ->
                  [st EXCEPT !.pads = 0, !.quad_pos = 0, !.leftchar = 0,
                             !.bin = Append(st.bin, st.leftchar * 64 + v)]

RECURSIVE B64Run(_, _)
B64Run(st, cs) == IF cs = <<>> THEN st ELSE B64Run(B64Step(st, Head(cs)), Tail(cs))

\* base64.b64decode(s): the bytes, or binascii.Error.
b64decode(cs) ==
    LET st == B64Run([quad_pos |-> 0, leftchar |-> 0, pads |-> 0, bin |-> <<>>,
                      done |-> FALSE], cs)
    IN  IF st.quad_pos # 0 THEN Raise("binascii.Error") ELSE Ok(st.bin)

\* The characters of the JSON texts that occur, by their byte.
Chr(b) ==
    CASE b = 34 -> "\"" [] b = 44 -> "," [] b = 58 -> ":" [] b = 62 -> ">"
      [] b = 63 -> "?" [] b = 97 -> "a" [] b = 98 -> "b"
      [] b = 123 -> "{" [] b = 125 -> "}"
      [] b = 48 -> "0" [] b = 49 -> "1" [] b = 50 -> "2" [] b = 51 -> "3"
      [] b = 52 -> "4" [] b = 53 -> "5" [] b = 54 -> "6" [] b = 55 -> "7"
      [] b = 56 -> "8" [] b = 57 -> "9"
      [] OTHER -> "other"

Digits == <<"0", "1", "2", "3", "4", "5", "6", "7", "8", "9">>

IsDigit(c) == \E i \in DOMAIN Digits : Digits[i] = c

DigitValue(c) == (CHOOSE i \in DOMAIN Digits : Digits[i] = c) - 1

JsonObject(mapping) == [object |-> mapping]

JsonNumber(n) == [number |-> n]

\* A JSON integer: digits without a leading zero.
IsInt(cs) ==
    /\ cs # <<>>
    /\ \A i \in DOMAIN cs : IsDigit(cs[i])
    /\ Len(cs) > 1 => cs[1] # "0"

RECURSIVE IntValue(_)
IntValue(cs) ==
    IF cs = <<>> THEN 0
    ELSE IntValue(SubSeq(cs, 1, Len(cs) - 1)) * 10 + DigitValue(cs[Len(cs)])

\* A JSON string without escapes, quotes included.
IsKey(cs) ==
    /\ Len(cs) >= 2 /\ cs[1] = "\"" /\ cs[Len(cs)] = "\""
    /\ \A i \in 2..(Len(cs) - 1) : cs[i] \notin {"\"", "other"}

KeyOf(cs) == SubSeq(cs, 2, Len(cs) - 1)

IsMember(cs) ==
    LET kv == split(cs, ":") IN Len(kv) = 2 /\ IsKey(kv[1]) /\ IsInt(kv[2])

\* The dict of a list of "key":int members: the last member of a key wins.
Mapping(members) ==
    LET kvs == [i \in DOMAIN members |-> split(members[i], ":")] IN
    [k \in {KeyOf(kvs[i][1]) : i \in DOMAIN kvs} |->
        LET last == CHOOSE i \in DOMAIN kvs :
                        /\ KeyOf(kvs[i][1]) = k
                        /\ \A j \in DOMAIN kvs : KeyOf(kvs[j][1]) = k => j <= i
        IN  IntValue(kvs[last][2])]

\* json.loads of the decoded bytes, for the JSON texts that occur: an
\* integer, or an object of "key":int members; anything else is a
\* JSONDecodeError.
json_loads(bytes) ==
    LET text == [i \in DOMAIN bytes |-> Chr(bytes[i])] IN
    IF IsInt(text) THEN Ok(JsonNumber(IntValue(text)))
    ELSE IF Len(text) >= 2 /\ text[1] = "{" /\ text[Len(text)] = "}" THEN
        LET inner == SubSeq(text, 2, Len(text) - 1) IN
        IF inner = <<>> THEN Ok(JsonObject(<<>>))
        ELSE LET members == split(inner, ",") IN
             IF \A i \in DOMAIN members : IsMember(members[i])
             THEN Ok(JsonObject(Mapping(members)))
             ELSE Raise("JSONDecodeError")
    ELSE Raise("JSONDecodeError")

\* Mutant: a token of more than three segments is let through.
validate_id_token_min_three(id_token) ==
    LET parts == split(id_token, ".") IN
    IF Len(parts) < 3 THEN Raise("Invalid ID token format")
    ELSE LET decoded == b64decode(translate(Padded(parts[2]))) IN
         IF ~decoded.ok THEN Raise("Failed to decode ID token: " \o decoded.error)
         ELSE LET loaded == json_loads(decoded.value) IN
              IF ~loaded.ok THEN Raise("Failed to decode ID token: " \o loaded.error)
              ELSE loaded

\* The text of the wrapped exception is given by its class.
validate_id_token(id_token) ==
    LET parts == split(id_token, ".") IN
    IF Len(parts) # 3 THEN Raise("Invalid ID token format")
    ELSE LET decoded == b64decode(translate(Padded(parts[2]))) IN
         IF ~decoded.ok THEN Raise("Failed to decode ID token: " \o decoded.error)
         ELSE LET loaded == json_loads(decoded.value) IN
              IF ~loaded.ok THEN Raise("Failed to decode ID token: " \o loaded.error)
              ELSE loaded

(* ------------------- what a request handler produces ------------------ *)

NoUrl == Plain("")

Redirect(status, url) == [kind |-> "redirect", status |-> status, url |-> url, detail |-> ""]

Error(status, detail) == [kind |-> "error", status |-> status, url |-> NoUrl, detail |-> detail]

MissingCode == "Authorization code missing"

AuthenticationError(e) == "Authentication error: " \o e

Page == [kind |-> "page", status |-> 200, url |-> NoUrl, detail |-> ""]

\* No HTTP response: an exception that leaves the constructor.
Raised(e) == [kind |-> "exception", status |-> 0, url |-> NoUrl, detail |-> e]

\* session after the request, response sent, HTTP requests issued on the
\* way, and whether the body of a guarded route function was executed.
Outcome(sess, resp, reqs, ran) ==
    [session |-> sess, response |-> resp, requests |-> reqs, ran |-> ran,
     tokens |-> Nothing, user_info |-> Nothing]

\* The same for auth_callback, with its locals tokens and user_info as far
\* as they were assigned.
CallbackOutcome(sess, resp, reqs, tok, ui) ==
    [session |-> sess, response |-> resp, requests |-> reqs, ran |-> FALSE,
     tokens |-> tok, user_info |-> ui]

session_auth_key == "next_identity_auth"

\* Mutant: the access token stored under another key.
AuthRecord_token_key(tok, user_info) ==
    [token |-> tok["access_token"],
     id_token |-> Get(tok, "id_token", None),
     refresh_token |-> Get(tok, "refresh_token", None),
     expires_in |-> Get(tok, "expires_in", None),
     user_info |-> user_info]

AuthRecord(tok, user_info) ==
    [access_token |-> tok["access_token"],
     id_token |-> Get(tok, "id_token", None),
     refresh_token |-> Get(tok, "refresh_token", None),
     expires_in |-> Get(tok, "expires_in", None),
     user_info |-> user_info]

(* ------------------------ flask_integration.py ------------------------ *)

\* flask.url_for on the host application: BuildError for an endpoint the
\* host does not define.
url_for(rts, endpoint, external) ==
    IF endpoint \notin rts THEN Raise("BuildError: " \o endpoint)
    ELSE Ok((IF external THEN "http://localhost" ELSE "")
            \o (IF endpoint = "index" THEN "/" ELSE "/" \o endpoint))

\* Mutant: the tokens are stored as soon as they arrive, user_info added
\* once fetched.
flask_auth_callback_early_write(sess, cfg, code, tokenOutcome, userinfoOutcome) ==
    IF ~Truthy(code)
    THEN CallbackOutcome(sess, Error(400, MissingCode), <<>>, Nothing, Nothing)
    ELSE LET t == exchange_code_for_tokens(cfg, code, tokenOutcome) IN
         IF ~t.ok
         THEN CallbackOutcome(sess, Error(400, AuthenticationError(t.error)),
                              t.sent, Nothing, Nothing)
         ELSE IF ~Has(t.value, "access_token")
         THEN CallbackOutcome(sess, Error(400, AuthenticationError("KeyError: access_token")),
                              t.sent, Some(t.value), Nothing)
         ELSE LET s1 == Put(sess, session_auth_key, AuthRecord(t.value, <<>>))
                  u == get_userinfo(cfg, t.value["access_token"], userinfoOutcome)
              IN  IF ~u.ok
                  THEN CallbackOutcome(s1, Error(400, AuthenticationError(u.error)),
                                       t.sent \o u.sent, Some(t.value), Nothing)
                  ELSE CallbackOutcome(
                           Del(Put(sess, session_auth_key, AuthRecord(t.value, u.value)),
                               "return_to"),
                           Redirect(302, Plain(Get(sess, "return_to", "/"))),
                           t.sent \o u.sent, Some(t.value), Some(u.value))

\* Mutant: return_to is popped as soon as the code has been read.
flask_auth_callback_pop_first(sess, cfg, code, tokenOutcome, userinfoOutcome) ==
    IF ~Truthy(code)
    THEN CallbackOutcome(sess, Error(400, MissingCode), <<>>,
                         Nothing, Nothing)
    ELSE LET s0 == Del(sess, "return_to")
             t == exchange_code_for_tokens(cfg, code, tokenOutcome) IN
         IF ~t.ok
         THEN CallbackOutcome(s0, Error(400, AuthenticationError(t.error)),
                              t.sent, Nothing, Nothing)
         ELSE IF ~Has(t.value, "access_token")
         THEN CallbackOutcome(s0, Error(400, AuthenticationError("KeyError: access_token")),
                              t.sent, Some(t.value), Nothing)
         ELSE LET u == get_userinfo(cfg, t.value["access_token"], userinfoOutcome) IN
              IF ~u.ok
              THEN CallbackOutcome(s0, Error(400, AuthenticationError(u.error)),
                                   t.sent \o u.sent, Some(t.value), Nothing)
              ELSE CallbackOutcome(
                       Put(s0, session_auth_key, AuthRecord(t.value, u.value)),
                       Redirect(302, Plain(Get(sess, "return_to", "/"))),
                       t.sent \o u.sent, Some(t.value), Some(u.value))

flask_auth_callback(sess, cfg, code, tokenOutcome, userinfoOutcome) ==
    IF ~Truthy(code)
    THEN CallbackOutcome(sess, Error(400, MissingCode), <<>>,
                         Nothing, Nothing)
    ELSE LET t == exchange_code_for_tokens(cfg, code, tokenOutcome) IN
         IF ~t.ok
         THEN CallbackOutcome(sess, Error(400, AuthenticationError(t.error)),
                              t.sent, Nothing, Nothing)
         ELSE IF ~Has(t.value, "access_token")
         THEN CallbackOutcome(sess, Error(400, AuthenticationError("KeyError: access_token")),
                              t.sent, Some(t.value), Nothing)
         ELSE LET u == get_userinfo(cfg, t.value["access_token"], userinfoOutcome) IN
              IF ~u.ok
              THEN CallbackOutcome(sess, Error(400, AuthenticationError(u.error)),
                                   t.sent \o u.sent, Some(t.value), Nothing)
              ELSE CallbackOutcome(
                       Del(Put(sess, session_auth_key, AuthRecord(t.value, u.value)),
                           "return_to"),
                       Redirect(302, Plain(Get(sess, "return_to", "/"))),
                       t.sent \o u.sent, Some(t.value), Some(u.value))

\* Mutant: a return_to already in the session is kept (setdefault).
flask_begin_setdefault(sess, return_to, target) ==
    LET s1 == IF Has(sess, "return_to") THEN sess ELSE Put(sess, "return_to", return_to) IN
    IF target.ok THEN Outcome(s1, Redirect(302, target.value), <<>>, FALSE)
    ELSE Outcome(s1, Error(500, target.error), <<>>, FALSE)

\* login, register and edit_profile differ only in the URL they build.
flask_begin(sess, return_to, target) ==
    LET s1 == Put(sess, "return_to", return_to) IN
    IF target.ok THEN Outcome(s1, Redirect(302, target.value), <<>>, FALSE)
    ELSE Outcome(s1, Error(500, target.error), <<>>, FALSE)

flask_login(sess, cfg, return_to) ==
    flask_begin(sess, return_to, get_login_url(cfg, None, None))

flask_register(sess, cfg, return_to) ==
    flask_begin(sess, return_to, get_register_url(cfg, None, None))

flask_edit_profile(sess, cfg, return_to) ==
    flask_begin(sess, return_to, get_profile_url(cfg, None, None))

\* Mutant: session.get in place of session.pop.
flask_logout_get(sess, cfg, rts, return_to) ==
    LET id_token == IF Has(sess, session_auth_key)
                    THEN sess[session_auth_key]["id_token"] ELSE None
        post == IF return_to = "/" THEN url_for(rts, "index", TRUE) ELSE Ok(return_to)
    IN  IF ~post.ok THEN Outcome(sess, Error(500, post.error), <<>>, FALSE)
        ELSE LET l == get_logout_url(cfg, id_token, post.value) IN
             IF ~l.ok THEN Outcome(sess, Error(500, l.error), <<>>, FALSE)
             ELSE Outcome(sess, Redirect(302, l.value), <<>>, FALSE)

flask_logout(sess, cfg, rts, return_to) ==
    LET id_token == IF Has(sess, session_auth_key)
                    THEN sess[session_auth_key]["id_token"] ELSE None
        s1 == Del(sess, session_auth_key)
        post == IF return_to = "/" THEN url_for(rts, "index", TRUE) ELSE Ok(return_to)
    IN  IF ~post.ok THEN Outcome(s1, Error(500, post.error), <<>>, FALSE)
        ELSE LET l == get_logout_url(cfg, id_token, post.value) IN
             IF ~l.ok THEN Outcome(s1, Error(500, l.error), <<>>, FALSE)
             ELSE Outcome(s1, Redirect(302, l.value), <<>>, FALSE)

\* Mutant: the claims handed out are those of the record's ID token.
flask_get_user_info_id_token(sess) ==
    IF Has(sess, session_auth_key) /\ Has(sess[session_auth_key], "user_info")
    THEN Some([sub |-> sess[session_auth_key]["id_token"]]) ELSE Nothing

flask_get_user_info(sess) ==
    IF Has(sess, session_auth_key) /\ Has(sess[session_auth_key], "user_info")
    THEN Some(sess[session_auth_key]["user_info"]) ELSE Nothing

\* Mutant: authenticated only with a non-empty access token.
flask_is_authenticated_non_empty(sess) ==
    /\ Has(sess, session_auth_key) /\ Has(sess[session_auth_key], "access_token")
    /\ Truthy(sess[session_auth_key]["access_token"])

flask_is_authenticated(sess) ==
    Has(sess, session_auth_key) /\ Has(sess[session_auth_key], "access_token")

\* Mutant: the requested URL is remembered on every request.
flask_login_required_always_remember(sess, rts, url) ==
    IF ~flask_is_authenticated(sess)
    THEN LET s1 == Put(sess, "return_to", url)
             l == url_for(rts, "login", FALSE)
         IN  IF l.ok THEN Outcome(s1, Redirect(302, Plain(l.value)), <<>>, FALSE)
             ELSE Outcome(s1, Error(500, l.error), <<>>, FALSE)
    ELSE Outcome(Put(sess, "return_to", url), Page, <<>>, TRUE)

\* A route function wrapped by @auth.login_required, requested at url.
flask_login_required(sess, rts, url) ==
    IF ~flask_is_authenticated(sess)
    THEN LET s1 == Put(sess, "return_to", url)
             l == url_for(rts, "login", FALSE)
         IN  IF l.ok THEN Outcome(s1, Redirect(302, Plain(l.value)), <<>>, FALSE)
             ELSE Outcome(s1, Error(500, l.error), <<>>, FALSE)
    ELSE Outcome(sess, Page, <<>>, TRUE)

\* examples/flask_app.py: the view behind url_for('login').
flask_app_login(sess, cfg, rts) ==
    LET index == url_for(rts, "index", TRUE) IN
    IF index.ok THEN flask_login(sess, cfg, index.value)
    ELSE Outcome(sess, Error(500, index.error), <<>>, FALSE)

(* ----------------------- fastapi_integration.py ----------------------- *)

\* Mutant: session.get('return_to', '/') in place of session.pop.
fastapi_auth_callback_keep_return_to(sess, cfg, code, tokenOutcome, userinfoOutcome) ==
    IF ~Truthy(code)
    THEN CallbackOutcome(sess, Error(400, MissingCode), <<>>, Nothing, Nothing)
    ELSE LET t == exchange_code_for_tokens(cfg, code, tokenOutcome) IN
         IF ~t.ok
         THEN CallbackOutcome(sess, Error(400, AuthenticationError(t.error)),
                              t.sent, Nothing, Nothing)
         ELSE IF ~Has(t.value, "access_token")
         THEN CallbackOutcome(sess, Error(400, AuthenticationError("KeyError: access_token")),
                              t.sent, Some(t.value), Nothing)
         ELSE LET u == get_userinfo(cfg, t.value["access_token"], userinfoOutcome) IN
              IF ~u.ok
              THEN CallbackOutcome(sess, Error(400, AuthenticationError(u.error)),
                                   t.sent \o u.sent, Some(t.value), Nothing)
              ELSE CallbackOutcome(
                       Put(sess, session_auth_key, AuthRecord(t.value, u.value)),
                       Redirect(307, Plain(Get(sess, "return_to", "/"))),
                       t.sent \o u.sent, Some(t.value), Some(u.value))

\* Mutant: the record is stored with the tokens, before the userinfo request.
fastapi_auth_callback_early_write(sess, cfg, code, tokenOutcome, userinfoOutcome) ==
    IF ~Truthy(code)
    THEN CallbackOutcome(sess, Error(400, MissingCode), <<>>,
                         Nothing, Nothing)
    ELSE LET t == exchange_code_for_tokens(cfg, code, tokenOutcome) IN
         IF ~t.ok
         THEN CallbackOutcome(sess, Error(400, AuthenticationError(t.error)),
                              t.sent, Nothing, Nothing)
         ELSE IF ~Has(t.value, "access_token")
         THEN CallbackOutcome(sess, Error(400, AuthenticationError("KeyError: access_token")),
                              t.sent, Some(t.value), Nothing)
         ELSE LET u == get_userinfo(cfg, t.value["access_token"], userinfoOutcome) IN
              IF ~u.ok
              THEN CallbackOutcome(Put(sess, session_auth_key, AuthRecord(t.value, <<>>)),
                                   Error(400, AuthenticationError(u.error)),
                                   t.sent \o u.sent, Some(t.value), Nothing)
              ELSE CallbackOutcome(
                       Del(Put(sess, session_auth_key, AuthRecord(t.value, u.value)),
                           "return_to"),
                       Redirect(307, Plain(Get(sess, "return_to", "/"))),
                       t.sent \o u.sent, Some(t.value), Some(u.value))

fastapi_auth_callback(sess, cfg, code, tokenOutcome, userinfoOutcome) ==
    IF ~Truthy(code)
    THEN CallbackOutcome(sess, Error(400, MissingCode), <<>>,
                         Nothing, Nothing)
    ELSE LET t == exchange_code_for_tokens(cfg, code, tokenOutcome) IN
         IF ~t.ok
         THEN CallbackOutcome(sess, Error(400, AuthenticationError(t.error)),
                              t.sent, Nothing, Nothing)
         ELSE IF ~Has(t.value, "access_token")
         THEN CallbackOutcome(sess, Error(400, AuthenticationError("KeyError: access_token")),
                              t.sent, Some(t.value), Nothing)
         ELSE LET u == get_userinfo(cfg, t.value["access_token"], userinfoOutcome) IN
              IF ~u.ok
              THEN CallbackOutcome(sess, Error(400, AuthenticationError(u.error)),
                                   t.sent \o u.sent, Some(t.value), Nothing)
              ELSE CallbackOutcome(
                       Del(Put(sess, session_auth_key, AuthRecord(t.value, u.value)),
                           "return_to"),
                       Redirect(307, Plain(Get(sess, "return_to", "/"))),
                       t.sent \o u.sent, Some(t.value), Some(u.value))

fastapi_begin(sess, return_to, target) ==
    LET s1 == Put(sess, "return_to", return_to) IN
    IF target.ok THEN Outcome(s1, Redirect(307, target.value), <<>>, FALSE)
    ELSE Outcome(s1, Error(500, target.error), <<>>, FALSE)

fastapi_login(sess, cfg, return_to) ==
    fastapi_begin(sess, return_to, get_login_url(cfg, None, None))

fastapi_register(sess, cfg, return_to) ==
    fastapi_begin(sess, return_to, get_register_url(cfg, None, None))

fastapi_edit_profile(sess, cfg, return_to) ==
    fastapi_begin(sess, return_to, get_profile_url(cfg, None, None))

\* Mutant: the record is removed only once the logout URL has been built.
fastapi_logout_pop_after(sess, cfg, return_to) ==
    LET id_token == IF Has(sess, session_auth_key)
                    THEN sess[session_auth_key]["id_token"] ELSE None
        l == get_logout_url(cfg, id_token, return_to)
    IN  IF ~l.ok THEN Outcome(sess, Error(500, l.error), <<>>, FALSE)
        ELSE Outcome(Del(sess, session_auth_key), Redirect(307, l.value), <<>>, FALSE)

fastapi_logout(sess, cfg, return_to) ==
    LET id_token == IF Has(sess, session_auth_key)
                    THEN sess[session_auth_key]["id_token"] ELSE None
        s1 == Del(sess, session_auth_key)
        l == get_logout_url(cfg, id_token, return_to)
    IN  IF ~l.ok THEN Outcome(s1, Error(500, l.error), <<>>, FALSE)
        ELSE Outcome(s1, Redirect(307, l.value), <<>>, FALSE)

fastapi_get_user_info(sess) ==
    IF Has(sess, session_auth_key) /\ Has(sess[session_auth_key], "user_info")
    THEN Some(sess[session_auth_key]["user_info"]) ELSE Nothing

fastapi_is_authenticated(sess) ==
    Has(sess, session_auth_key) /\ Has(sess[session_auth_key], "access_token")

\* What a dependency hands back to FastAPI: the value that is injected into
\* the route function's parameter.
Injected(sess, value) == [session |-> sess, value |-> value]

DependencyTrue == [kind |-> "True", status |-> 0, url |-> NoUrl, detail |-> ""]

\* Mutant: only the path of the requested URL is remembered.
fastapi_login_required_path(sess, url) ==
    IF ~fastapi_is_authenticated(sess)
    THEN Injected(Put(sess, "return_to", "/protected"), Redirect(307, Plain("/login")))
    ELSE Injected(sess, DependencyTrue)

\* The function wrapped in Depends(...) by login_required().
fastapi_login_required(sess, url) ==
    IF ~fastapi_is_authenticated(sess)
    THEN Injected(Put(sess, "return_to", url), Redirect(307, Plain("/login")))
    ELSE Injected(sess, DependencyTrue)

\* examples/fastapi_app.py: protected(request, _=Depends(auth.login_required())).
\* FastAPI resolves the dependency, binds whatever it returned to `_` and
\* calls the route function; only an exception raised by a dependency stops
\* the call.  The function ignores `_` and renders the page.
fastapi_app_protected(sess, url) ==
    LET dep == fastapi_login_required(sess, url) IN
    Outcome(dep.session, Page, <<>>, TRUE)

\* examples/fastapi_app.py: the route at "/login".
fastapi_app_login(sess, cfg) == fastapi_login(sess, cfg, "/")

(* --------------------- the program as a state machine ------------------ *)

ProtectedUrls == {"http://localhost/protected" \o ToString(i) : i \in 1..NumUrls}

IndexUrl == "http://localhost/"

ReturnToArgs == ReturnTos \cup {IndexUrl}

\* The two callback requests of one browser session that may be in
\* progress at once.
Callbacks == {1, 2}

\* A callback request not yet received: its locals are unset.
Waiting ==
    [pc |-> "waiting", code |-> None, tokens |-> Nothing, user_info |-> Nothing,
     response |-> Page]

\* The browser sessions served by the one adapter and its one client.
SessionIds == {1, 2}

NoneInProgress ==
    /\ inflight = [p \in Callbacks |-> Waiting]
    /\ lastWriter = 0
    /\ sessions = [sid \in SessionIds |-> <<>>]
    /\ solo = [sid \in SessionIds |-> <<>>]
    /\ actor = 0
    /\ twin = [flask |-> <<>>, fastapi |-> <<>>]

NoCall == [fn |-> "none", args |-> <<>>, result |-> Sent(Raise(""), <<>>)]

\* The adapter object exists, init_app has not yet built its client
\* (self.client = None, and in the client self.config = None).
Init ==
    /\ adapter \in {"flask", "fastapi"}
    /\ routes \in IF adapter = "flask" THEN SUBSET HostRoutes ELSE {HostRoutes}
    /\ client = "new"
    /\ config = <<>>
    /\ session = <<>>
    /\ op = "init"
    /\ arg = None
    /\ call = NoCall
    /\ response = Page
    /\ handlerRan = FALSE
    /\ tokens = Nothing
    /\ userinfo = Nothing
    /\ requests = <<>>
    /\ hadRecord = FALSE
    /\ pendingUrl = None
    /\ NoneInProgress

\* init_app: NextIdentityClient(...) fetches the discovery document; an
\* exception leaves the constructor and no client exists.  arg records how
\* the discovery GET ended.
Construct ==
    /\ client = "new"
    /\ \E outcome \in DiscoveryOutcomes :
           LET r == fetch_config(outcome) IN
           /\ client' = IF r.ok THEN "ready" ELSE "failed"
           /\ config' = IF r.ok THEN r.value ELSE config
           /\ requests' = r.sent
           /\ response' = IF r.ok THEN response ELSE Raised(r.error)
           /\ arg' = outcome.status
    /\ op' = "construct"
    /\ UNCHANGED <<adapter, routes, session, handlerRan, tokens, userinfo,
                   hadRecord, pendingUrl, call>>
    /\ UNCHANGED concurrent

\* Mutant: every request builds the client, and fetches the document, anew.
Serve_refetch(name, a, out) ==
    /\ client = "ready"
    /\ op' = name
    /\ arg' = a
    /\ session' = out.session
    /\ response' = out.response
    /\ handlerRan' = out.ran
    /\ tokens' = out.tokens
    /\ userinfo' = out.user_info
    /\ requests' = out.requests
    /\ hadRecord' = Has(session, session_auth_key)
    /\ config' \in DiscoveryDocs
    /\ UNCHANGED <<adapter, routes, client, call>>
    /\ UNCHANGED concurrent

\* One request served: its outcome becomes the new state.
Serve(name, a, out) ==
    /\ client = "ready"
    /\ op' = name
    /\ arg' = a
    /\ session' = out.session
    /\ response' = out.response
    /\ handlerRan' = out.ran
    /\ tokens' = out.tokens
    /\ userinfo' = out.user_info
    /\ requests' = out.requests
    /\ hadRecord' = Has(session, session_auth_key)
    /\ UNCHANGED <<adapter, routes, client, config, call>>
    /\ UNCHANGED concurrent

IsAuthenticated(sess) ==
    IF adapter = "flask" THEN flask_is_authenticated(sess) ELSE fastapi_is_authenticated(sess)

GetUserInfo(sess) ==
    IF adapter = "flask" THEN flask_get_user_info(sess) ELSE fastapi_get_user_info(sess)

auth_callback(code, tokenOutcome, userinfoOutcome) ==
    IF adapter = "flask"
    THEN flask_auth_callback(session, config, code, tokenOutcome, userinfoOutcome)
    ELSE fastapi_auth_callback(session, config, code, tokenOutcome, userinfoOutcome)

\* The IdP redirects back with a code; the token and userinfo endpoints
\* answer the requests of the callback in any way they can.
AuthCallback ==
    \E code \in {c \in Codes : Truthy(c)} :
        \E tokenOutcome \in TokenOutcomes, userinfoOutcome \in UserinfoOutcomes :
            /\ Serve("auth_callback", code, auth_callback(code, tokenOutcome, userinfoOutcome))
            /\ pendingUrl' = IF response'.kind = "redirect" THEN None ELSE pendingUrl

\* The callback route requested without a code (no endpoint is contacted).
AuthCallbackNoCode ==
    \E code \in {c \in Codes : ~Truthy(c)} :
        /\ Serve("auth_callback", code, auth_callback(code, Failed, Failed))
        /\ UNCHANGED pendingUrl

Login ==
    \E return_to \in ReturnToArgs :
        /\ Serve("login", return_to, IF adapter = "flask" THEN flask_login(session, config, return_to)
                          ELSE fastapi_login(session, config, return_to))
        /\ pendingUrl' = None

Register ==
    \E return_to \in ReturnToArgs :
        /\ Serve("register", return_to, IF adapter = "flask" THEN flask_register(session, config, return_to)
                             ELSE fastapi_register(session, config, return_to))
        /\ pendingUrl' = None

EditProfile ==
    \E return_to \in ReturnToArgs :
        /\ Serve("edit_profile", return_to,
                 IF adapter = "flask" THEN flask_edit_profile(session, config, return_to)
                 ELSE fastapi_edit_profile(session, config, return_to))
        /\ pendingUrl' = None

Logout ==
    \E return_to \in ReturnToArgs :
        /\ Serve("logout", return_to, IF adapter = "flask" THEN flask_logout(session, config, routes, return_to)
                           ELSE fastapi_logout(session, config, return_to))
        /\ pendingUrl' = None

\* A request for a route protected by the login-required guard.
Protected ==
    \E url \in ProtectedUrls :
        /\ Serve("protected", url, IF adapter = "flask" THEN flask_login_required(session, routes, url)
                              ELSE fastapi_app_protected(session, url))
        /\ pendingUrl' = IF IsAuthenticated(session) THEN None ELSE url

\* A request for the host's login route, the one the guard redirects to.
LoginRoute ==
    /\ "login" \in routes
    /\ Serve("login_route", None, IF adapter = "flask" THEN flask_app_login(session, config, routes)
                            ELSE fastapi_app_login(session, config))
    /\ UNCHANGED pendingUrl

Next ==
    \/ Construct
    \/ AuthCallback
    \/ AuthCallbackNoCode
    \/ Login
    \/ Register
    \/ EditProfile
    \/ Logout
    \/ Protected
    \/ LoginRoute

Spec == Init /\ [][Next]_vars

(* --------------- two callbacks in progress on one session ------------- *)

\* What the provider answers to the requests of the callback of grant p:
\* each grant has its own tokens and its own user.
GrantTokenResponses(p) ==
    {[access_token |-> "tok" \o ToString(p)],
     [access_token |-> "tok" \o ToString(p), id_token |-> "idt" \o ToString(p)],
     [id_token |-> "idt" \o ToString(p)],
     [access_token |-> "tok" \o ToString(p), id_token |-> "idt" \o ToString(p),
      token_type |-> "Bearer"]}

GrantTokenOutcomes(p) == {Failed} \cup {Replied(t) : t \in GrantTokenResponses(p)}

GrantUserinfoOutcomes(p) == {Failed, Replied([sub |-> "u" \o ToString(p)])}

\* Mutant: the token fields are written into a record already there, whose
\* user_info stays.
StoreRecord_update(sess, tok, user_info) ==
    IF Has(sess, session_auth_key)
    THEN Put(sess, session_auth_key,
             [AuthRecord(tok, user_info) EXCEPT !.user_info = sess[session_auth_key].user_info])
    ELSE Put(sess, session_auth_key, AuthRecord(tok, user_info))

\* session[self.session_auth_key] = {...}: one assignment of the whole dict.
StoreRecord(sess, tok, user_info) == Put(sess, session_auth_key, AuthRecord(tok, user_info))

CallbackRedirect(url) == Redirect(IF adapter = "flask" THEN 302 ELSE 307, Plain(url))

\* One step of callback p: its locals become next, the session sess.
RaceStep(p, next, sess, writer) ==
    /\ client = "ready"
    /\ inflight' = [inflight EXCEPT ![p] = next]
    /\ session' = sess
    /\ lastWriter' = writer
    /\ UNCHANGED <<adapter, routes, client, config, sessions, solo, actor, twin>>
    /\ UNCHANGED served

Finished(p, resp) == [inflight[p] EXCEPT !.pc = "done", !.response = resp]

\* The request arrives; without a code it is answered at once.
RaceReceive ==
    \E p \in Callbacks, code \in Codes :
        /\ inflight[p].pc = "waiting"
        /\ RaceStep(p, IF ~Truthy(code) THEN Finished(p, Error(400, MissingCode))
                       ELSE [inflight[p] EXCEPT !.pc = "received", !.code = code],
                    session, lastWriter)

\* tokens = self.client.exchange_code_for_tokens(code)
RaceExchange ==
    \E p \in Callbacks :
        /\ inflight[p].pc = "received"
        /\ \E outcome \in GrantTokenOutcomes(p) :
               LET t == exchange_code_for_tokens(config, inflight[p].code, outcome) IN
               RaceStep(p, IF ~t.ok THEN Finished(p, Error(400, AuthenticationError(t.error)))
                           ELSE [inflight[p] EXCEPT !.pc = "exchanged",
                                                    !.tokens = Some(t.value)],
                        session, lastWriter)

\* user_info = self.client.get_userinfo(tokens['access_token'])
RaceUserinfo ==
    \E p \in Callbacks :
        /\ inflight[p].pc = "exchanged"
        /\ LET tok == inflight[p].tokens[1] IN
           IF ~Has(tok, "access_token")
           THEN RaceStep(p, Finished(p, Error(400, AuthenticationError("KeyError: access_token"))),
                         session, lastWriter)
           ELSE \E outcome \in GrantUserinfoOutcomes(p) :
                    LET u == get_userinfo(config, tok["access_token"], outcome) IN
                    RaceStep(p, IF ~u.ok
                                THEN Finished(p, Error(400, AuthenticationError(u.error)))
                                ELSE [inflight[p] EXCEPT !.pc = "fetched",
                                                         !.user_info = Some(u.value)],
                             session, lastWriter)

\* session[self.session_auth_key] = {...}
RaceStore ==
    \E p \in Callbacks :
        /\ inflight[p].pc = "fetched"
        /\ RaceStep(p, [inflight[p] EXCEPT !.pc = "stored"],
                    StoreRecord(session, inflight[p].tokens[1], inflight[p].user_info[1]), p)

\* return_to = session.pop('return_to', '/'), and the redirect to it.
RacePopReturnTo ==
    \E p \in Callbacks :
        /\ inflight[p].pc = "stored"
        /\ RaceStep(p, Finished(p, CallbackRedirect(Get(session, "return_to", "/"))),
                    Del(session, "return_to"), lastWriter)

\* A login request of the same session, served between two steps.
RaceLogin ==
    \E return_to \in ReturnTos :
        /\ client = "ready"
        /\ session' = (IF adapter = "flask" THEN flask_login(session, config, return_to)
                       ELSE fastapi_login(session, config, return_to)).session
        /\ UNCHANGED <<adapter, routes, client, config>>
        /\ UNCHANGED served
        /\ UNCHANGED concurrent

NextRace ==
    \/ Construct
    \/ RaceReceive
    \/ RaceExchange
    \/ RaceUserinfo
    \/ RaceStore
    \/ RacePopReturnTo
    \/ RaceLogin

SpecRace == Init /\ [][NextRace]_vars

(* ------------- one session, callbacks of several grants --------------- *)

\* The callback of one of several grants, each with its own tokens and
\* user, on the one session.
GrantCallback ==
    \E p \in Callbacks, code \in {c \in Codes : Truthy(c)} :
        \E tokenOutcome \in GrantTokenOutcomes(p), userinfoOutcome \in GrantUserinfoOutcomes(p) :
            /\ Serve("auth_callback", code, auth_callback(code, tokenOutcome, userinfoOutcome))
            /\ pendingUrl' = IF response'.kind = "redirect" THEN None ELSE pendingUrl

NextGrants ==
    \/ Construct
    \/ GrantCallback
    \/ AuthCallbackNoCode
    \/ Login
    \/ Register
    \/ EditProfile
    \/ Logout
    \/ Protected
    \/ LoginRoute

SpecGrants == Init /\ [][NextGrants]_vars

(* ---------------- several sessions served by one adapter ------------- *)

\* The session a request of browser sid is served with: flask.session and
\* request.session are bound to the request.
LoadSession(all, sid) == all[sid]

\* Mutant: one store shared by every browser.
SaveSession_shared(all, sid, sess) == [other \in DOMAIN all |-> sess]

SaveSession(all, sid, sess) == [all EXCEPT ![sid] = sess]

\* One request of browser sid served by Handler. solo[sid] is the session
\* of sid had nothing but its own requests been served, with the same
\* arguments and the same answers of the provider.
ServeSession(sid, Handler(_)) ==
    /\ client = "ready"
    /\ sessions' = SaveSession(sessions, sid, Handler(LoadSession(sessions, sid)).session)
    /\ solo' = [solo EXCEPT ![sid] = Handler(solo[sid]).session]
    /\ actor' = sid
    /\ UNCHANGED <<adapter, routes, client, config, session, inflight, lastWriter, twin>>
    /\ UNCHANGED served

SessionsAuthCallback ==
    \E sid \in SessionIds, code \in Codes :
        \E tokenOutcome \in GrantTokenOutcomes(sid),
           userinfoOutcome \in GrantUserinfoOutcomes(sid) :
            ServeSession(sid, LAMBDA sess :
                IF adapter = "flask"
                THEN flask_auth_callback(sess, config, code, tokenOutcome, userinfoOutcome)
                ELSE fastapi_auth_callback(sess, config, code, tokenOutcome, userinfoOutcome))

SessionsLogin ==
    \E sid \in SessionIds, return_to \in ReturnTos :
        ServeSession(sid, LAMBDA sess :
            IF adapter = "flask" THEN flask_login(sess, config, return_to)
            ELSE fastapi_login(sess, config, return_to))

SessionsRegister ==
    \E sid \in SessionIds, return_to \in ReturnTos :
        ServeSession(sid, LAMBDA sess :
            IF adapter = "flask" THEN flask_register(sess, config, return_to)
            ELSE fastapi_register(sess, config, return_to))

SessionsEditProfile ==
    \E sid \in SessionIds, return_to \in ReturnTos :
        ServeSession(sid, LAMBDA sess :
            IF adapter = "flask" THEN flask_edit_profile(sess, config, return_to)
            ELSE fastapi_edit_profile(sess, config, return_to))

SessionsLogout ==
    \E sid \in SessionIds, return_to \in ReturnTos :
        ServeSession(sid, LAMBDA sess :
            IF adapter = "flask" THEN flask_logout(sess, config, routes, return_to)
            ELSE fastapi_logout(sess, config, return_to))

SessionsProtected ==
    \E sid \in SessionIds, url \in ProtectedUrls :
        ServeSession(sid, LAMBDA sess :
            IF adapter = "flask" THEN flask_login_required(sess, routes, url)
            ELSE fastapi_app_protected(sess, url))

NextSessions ==
    \/ Construct
    \/ SessionsAuthCallback
    \/ SessionsLogin
    \/ SessionsRegister
    \/ SessionsEditProfile
    \/ SessionsLogout
    \/ SessionsProtected

SpecSessions == Init /\ [][NextSessions]_vars

(* ------------- the two adapters given the same requests -------------- *)

\* The same request served by the Flask adapter on twin.flask and by the
\* FastAPI adapter on twin.fastapi, with the same arguments and the same
\* answers of the provider.
TwinStep(flaskOut, fastapiOut) ==
    /\ client = "ready"
    /\ twin' = [flask |-> flaskOut.session, fastapi |-> fastapiOut.session]
    /\ UNCHANGED <<adapter, routes, client, config, session, inflight, lastWriter,
                   sessions, solo, actor>>
    /\ UNCHANGED served

TwinAuthCallback ==
    \E p \in Callbacks, code \in Codes :
        \E tokenOutcome \in GrantTokenOutcomes(p), userinfoOutcome \in GrantUserinfoOutcomes(p) :
            TwinStep(flask_auth_callback(twin.flask, config, code, tokenOutcome, userinfoOutcome),
                     fastapi_auth_callback(twin.fastapi, config, code, tokenOutcome,
                                           userinfoOutcome))

TwinLogin ==
    \E return_to \in ReturnToArgs :
        TwinStep(flask_login(twin.flask, config, return_to),
                 fastapi_login(twin.fastapi, config, return_to))

TwinRegister ==
    \E return_to \in ReturnToArgs :
        TwinStep(flask_register(twin.flask, config, return_to),
                 fastapi_register(twin.fastapi, config, return_to))

TwinEditProfile ==
    \E return_to \in ReturnToArgs :
        TwinStep(flask_edit_profile(twin.flask, config, return_to),
                 fastapi_edit_profile(twin.fastapi, config, return_to))

TwinLogout ==
    \E return_to \in ReturnToArgs :
        TwinStep(flask_logout(twin.flask, config, routes, return_to),
                 fastapi_logout(twin.fastapi, config, return_to))

\* The guard: the Flask decorator and the FastAPI dependency.
TwinGuard ==
    \E url \in ProtectedUrls :
        TwinStep(flask_login_required(twin.flask, routes, url),
                 fastapi_login_required(twin.fastapi, url))

NextTwin ==
    \/ Construct
    \/ TwinAuthCallback
    \/ TwinLogin
    \/ TwinRegister
    \/ TwinEditProfile
    \/ TwinLogout
    \/ TwinGuard

\* Flask is given any set of host routes, so that url_for may fail.
InitTwin ==
    /\ Init
    /\ adapter = "flask"

SpecTwin == InitTwin /\ [][NextTwin]_vars

(* ------------------- the client used on its own ----------------------- *)

\* examples/simple_client.py: a NextIdentityClient built and called
\* directly, without an adapter or a session.

StateArgs == {None, "", "s1", "a b", "&=+%/"}

NonceArgs == {None, "", "n1"}

InitClient ==
    /\ adapter = "none"
    /\ routes = {}
    /\ client = "new"
    /\ config = <<>>
    /\ session = <<>>
    /\ op = "init"
    /\ arg = None
    /\ call = NoCall
    /\ response = Page
    /\ handlerRan = FALSE
    /\ tokens = Nothing
    /\ userinfo = Nothing
    /\ requests = <<>>
    /\ hadRecord = FALSE
    /\ pendingUrl = None
    /\ NoneInProgress

\* One method of the client called: its arguments and what it returned or
\* raised, together with the HTTP requests it issued.
Called(fn, args, result) ==
    /\ client = "ready"
    /\ call' = [fn |-> fn, args |-> args, result |-> result]
    /\ UNCHANGED <<adapter, routes, client, config, session, op, arg, response,
                   handlerRan, tokens, userinfo, requests, hadRecord, pendingUrl>>
    /\ UNCHANGED concurrent

CallGetLoginUrl ==
    \E state \in StateArgs, nonce \in NonceArgs :
        Called("get_login_url", <<state, nonce>>,
               Sent(get_login_url(config, state, nonce), <<>>))

CallGetRegisterUrl ==
    \E state \in StateArgs, nonce \in NonceArgs :
        Called("get_register_url", <<state, nonce>>,
               Sent(get_register_url(config, state, nonce), <<>>))

CallGetProfileUrl ==
    \E state \in StateArgs, nonce \in NonceArgs :
        Called("get_profile_url", <<state, nonce>>,
               Sent(get_profile_url(config, state, nonce), <<>>))

CallExchangeCode ==
    \E code \in Codes, outcome \in TokenOutcomes :
        Called("exchange_code_for_tokens", <<code>>,
               exchange_code_for_tokens(config, code, outcome))

CallGetUserinfo ==
    \E access_token \in TokenValues("access_token"), outcome \in UserinfoOutcomes :
        Called("get_userinfo", <<access_token>>,
               get_userinfo(config, access_token, outcome))

CallGetLogoutUrl ==
    \E id_token_hint \in TokenValues("id_token"), post \in {None, ""} \cup ReturnToArgs :
        Called("get_logout_url", <<id_token_hint, post>>,
               Sent(get_logout_url(config, id_token_hint, post), <<>>))

NextClient ==
    \/ Construct
    \/ CallGetLoginUrl
    \/ CallGetRegisterUrl
    \/ CallGetProfileUrl
    \/ CallExchangeCode
    \/ CallGetUserinfo
    \/ CallGetLogoutUrl

SpecClient == InitClient /\ [][NextClient]_vars

(* ----------------- the ID tokens given to validate_id_token ----------- *)

Ord(c) == CHOOSE b \in 0..127 : Chr(b) = c

RECURSIVE Decimal(_)
Decimal(n) ==
    IF n < 10 THEN <<Digits[n + 1]>> ELSE Decimal(n \div 10) \o <<Digits[(n % 10) + 1]>>

\* The compact JSON text of an object given as a list of (key, int) pairs.
RECURSIVE MembersText(_)
MembersText(pairs) ==
    IF pairs = <<>> THEN <<>>
    ELSE <<"\"">> \o pairs[1][1] \o <<"\"", ":">> \o Decimal(pairs[1][2])
         \o (IF Len(pairs) = 1 THEN <<>> ELSE <<",">> \o MembersText(Tail(pairs)))

JsonText(pairs) == <<"{">> \o MembersText(pairs) \o <<"}">>

PairsMapping(pairs) ==
    [k \in {pairs[i][1] : i \in DOMAIN pairs} |->
        LET last == CHOOSE i \in DOMAIN pairs :
                        pairs[i][1] = k /\ \A j \in DOMAIN pairs : pairs[j][1] = k => j <= i
        IN  pairs[last][2]]

\* base64.urlsafe_b64encode(bytes).rstrip("=")
UrlSafe(v) == IF v = 62 THEN "-" ELSE IF v = 63 THEN "_" ELSE B64Chars[v + 1]

RECURSIVE b64url_unpadded(_)
b64url_unpadded(bytes) ==
    IF bytes = <<>> THEN <<>>
    ELSE IF Len(bytes) = 1 THEN
        <<UrlSafe(bytes[1] \div 4), UrlSafe((bytes[1] % 4) * 16)>>
    ELSE IF Len(bytes) = 2 THEN
        <<UrlSafe(bytes[1] \div 4), UrlSafe((bytes[1] % 4) * 16 + bytes[2] \div 16),
          UrlSafe((bytes[2] % 16) * 4)>>
    ELSE <<UrlSafe(bytes[1] \div 4), UrlSafe((bytes[1] % 4) * 16 + bytes[2] \div 16),
           UrlSafe((bytes[2] % 16) * 4 + bytes[3] \div 64), UrlSafe(bytes[3] % 64)>>
         \o b64url_unpadded(SubSeq(bytes, 4, Len(bytes)))

EncodedPayload(pairs) ==
    LET text == JsonText(pairs) IN b64url_unpadded([i \in DOMAIN text |-> Ord(text[i])])

\* The JSON objects carried by the well-formed tokens: payloads of every
\* length modulo 4, with the url-safe characters - and _ among them.
Numbers == {1} \cup {IntValue([i \in 1..n |-> Digits[i + 1]]) : n \in 1..MaxDigits}

PayloadObjects ==
    {<<>>, <<<<<<"?">>, 1>>>>, <<<<<<">">>, 1>>>>,
     <<<<<<"a">>, 1>>, <<<<"b">>, 2>>>>, <<<<<<"a">>, 1>>, <<<<"a">>, 2>>>>}
    \cup {<<<<<<"a">>, n>>>> : n \in Numbers}

RECURSIVE Join(_)
Join(segments) ==
    IF Len(segments) = 1 THEN segments[1]
    ELSE segments[1] \o <<".">> \o Join(Tail(segments))

TokenOf(pairs) == Join(<<<<"h">>, EncodedPayload(pairs), <<"s">>>>)

\* The well-formed token of each object.
EncodedTokens == [pairs \in PayloadObjects |-> TokenOf(pairs)]

\* Three segments whose payload is not the encoding of an object.
OtherPayloads == {<<>>, <<"e">>, <<"e", "3">>, <<"M", "Q">>, <<"e", "3", "0", "=">>}

\* Any number of segments but three.
OtherCounts == {n \in 1..MaxSegments : n # 3}

IdTokens ==
    {EncodedTokens[pairs] : pairs \in PayloadObjects}
    \cup {Join(<<<<"h">>, p, <<"s">>>>) : p \in OtherPayloads}
    \cup UNION {{Join(segments) : segments \in [1..n -> {<<>>, <<"e", "3", "0">>}]} :
                n \in OtherCounts}

CallValidateIdToken ==
    \E id_token \in IdTokens :
        Called("validate_id_token", <<id_token>>, Sent(validate_id_token(id_token), <<>>))

NextDecode ==
    \/ Construct
    \/ CallValidateIdToken

SpecDecode == InitClient /\ [][NextDecode]_vars

(* ------------------------------ properties ---------------------------- *)

\* The auth record of a session, as an optional value.
AuthSlot(sess) ==
    IF Has(sess, session_auth_key) THEN Some(sess[session_auth_key]) ELSE Nothing

\* The id_token of the record logout pops, None without a record.
StoredIdToken(sess) ==
    IF Has(sess, session_auth_key) THEN sess[session_auth_key]["id_token"] ELSE None

\* The values a URL carries for query parameter k.
QueryValues(url, k) ==
    {url.query[i][2] : i \in {j \in DOMAIN url.query : url.query[j][1] = k}}

LoginRouteUrl == Plain("/login")

\* C1: a request for a guarded route on an Anonymous session (the host
\* defining the login route) is answered by a redirect to the login route
\* and the body of the route function is not executed.
C1_GuardBlocksAnonymous ==
    [][(op' = "protected" /\ ~IsAuthenticated(session) /\ "login" \in routes)
       => (~handlerRan' /\ response'.kind = "redirect" /\ response'.url = LoginRouteUrl)]_vars

\* C2: when the guard has denied a request for currentUrl and the login
\* route has been followed, the next successful callback redirects to
\* currentUrl.
C2_GuardReturnToConsumed ==
    [][(op' = "auth_callback" /\ response'.kind = "redirect" /\ pendingUrl # None)
       => response'.url = Plain(pendingUrl)]_vars

\* C3: is_authenticated() holds exactly when the session has an auth record
\* whose access token is a non-empty string.
C3_AuthIffNonEmptyToken ==
    IsAuthenticated(session)
        <=> /\ Has(session, session_auth_key)
            /\ Has(session[session_auth_key], "access_token")
            /\ Truthy(session[session_auth_key]["access_token"])

\* C4 as stated: a callback that received a token response with an
\* access_token key leaves the session authenticated.
C4_AuthenticatedAfterTokenResponse ==
    [][(op' = "auth_callback" /\ tokens' # Nothing /\ Has(tokens'[1], "access_token"))
       => IsAuthenticated(session')]_vars

\* C4 amended: a callback that received a token response with an
\* access_token key and whose userinfo request succeeded leaves the session
\* authenticated.
C4_AuthenticatedAfterCallback ==
    [][(/\ op' = "auth_callback"
        /\ tokens' # Nothing /\ Has(tokens'[1], "access_token")
        /\ userinfo' # Nothing)
       => IsAuthenticated(session')]_vars

C4_Witness ==
    /\ op = "auth_callback"
    /\ tokens # Nothing /\ Has(tokens[1], "access_token")
    /\ userinfo # Nothing
    /\ ~hadRecord
    /\ IsAuthenticated(session)

\* C5: after logout, whether it redirected or failed, the session is not
\* authenticated and get_user_info() is None.
C5_AnonymousAfterLogout ==
    [][op' = "logout"
       => (~IsAuthenticated(session') /\ GetUserInfo(session') = Nothing)]_vars

C5_Witness ==
    /\ op = "logout"
    /\ hadRecord
    /\ response.kind = "error"
    /\ ~IsAuthenticated(session)
    /\ GetUserInfo(session) = Nothing

\* What str(e) can be for the exceptions auth_callback catches.
CallbackFailures ==
    {NotLoaded, "KeyError: token_endpoint", "Failed to exchange code for tokens",
     "KeyError: access_token", "KeyError: userinfo_endpoint", "Failed to get user info"}

\* C6: a callback that does not complete leaves the auth record as it was
\* and answers with an error: an authentication error whenever a code was
\* given.
C6_FailedCallbackKeepsRecord ==
    [][(op' = "auth_callback" /\ response'.kind # "redirect")
       => /\ AuthSlot(session') = AuthSlot(session)
          /\ response'.kind = "error"
          /\ response'.status = 400
          /\ response'.detail \in
                 {MissingCode} \cup {AuthenticationError(e) : e \in CallbackFailures}
          /\ requests' # <<>> => response'.detail # MissingCode]_vars

C6_Witness ==
    /\ op = "auth_callback"
    /\ hadRecord
    /\ tokens # Nothing /\ Has(tokens[1], "access_token")
    /\ userinfo = Nothing
    /\ response.kind = "error"
    /\ AuthSlot(session) # Nothing
    /\ AuthSlot(session)[1]["access_token"] # tokens[1]["access_token"]

\* C7: a successful callback redirects to the return-to slot's value, "/"
\* if the slot is empty, and leaves the slot empty.
C7_CallbackConsumesReturnTo ==
    [][(op' = "auth_callback" /\ response'.kind = "redirect")
       => /\ response'.url = Plain(Get(session, "return_to", "/"))
          /\ ~Has(session', "return_to")]_vars

C7_Witness ==
    /\ op = "auth_callback"
    /\ response.kind = "redirect"
    /\ response.url \in {Plain(p) : p \in Pages}
    /\ ~Has(session, "return_to")

\* C8: with no end_session_endpoint in the provider configuration, logout
\* fails and the auth record is gone all the same.
C8_LogoutRemovesRecordOnFailure ==
    [][(op' = "logout" /\ ~Has(config, "end_session_endpoint"))
       => /\ response'.kind = "error"
          /\ response'.detail \in {NoEndSession, NotLoaded, "BuildError: index"}
          /\ AuthSlot(session') = Nothing
          /\ ~IsAuthenticated(session')]_vars

C8_Witness ==
    /\ op = "logout"
    /\ hadRecord
    /\ ConfigLoaded(config)
    /\ ~Has(config, "end_session_endpoint")
    /\ response.detail = NoEndSession
    /\ AuthSlot(session) = Nothing

\* The logout redirect goes to the end-session endpoint and carries
\* id_token_hint exactly when the popped record held a non-empty id_token,
\* with that value.
HintMatches(resp, id_token) ==
    /\ resp.url.base = config["end_session_endpoint"]
    /\ QueryValues(resp.url, "id_token_hint")
           = IF Truthy(id_token) THEN {id_token} ELSE {}

\* C9 as stated: logout on a session without a record, or whose record has
\* no id_token, does not fail; the redirect carries id_token_hint exactly
\* when the popped record held a non-empty id_token.
C9_LogoutNeverFails ==
    [][op' = "logout"
       => /\ ~Truthy(StoredIdToken(session)) => response'.kind = "redirect"
          /\ response'.kind = "redirect" => HintMatches(response', StoredIdToken(session))]_vars

\* C9 amended: the same, when the provider configuration has an
\* end_session_endpoint and the host defines the index endpoint (which the
\* Flask adapter resolves for return_to "/").
C9_LogoutRedirectHint ==
    [][(op' = "logout" /\ Has(config, "end_session_endpoint") /\ "index" \in routes)
       => /\ response'.kind = "redirect"
          /\ HintMatches(response', StoredIdToken(session))]_vars

C9_Witness ==
    /\ op = "logout"
    /\ ~hadRecord
    /\ response.kind = "redirect"
    /\ response.url.base = config["end_session_endpoint"]
    /\ QueryValues(response.url, "id_token_hint") = {}

\* C10: an auth record stored in the session holds an access token.
C10_RecordHasAccessToken ==
    Has(session, session_auth_key)
        => /\ Has(session[session_auth_key], "access_token")
           /\ Truthy(session[session_auth_key]["access_token"])

\* The operations of the client that need the provider configuration.
ConfigOps ==
    {"get_login_url", "get_register_url", "get_profile_url",
     "exchange_code_for_tokens", "get_userinfo", "get_logout_url"}

Range(f) == {f[i] : i \in DOMAIN f}

\* C11: on a client whose configuration is not loaded, every URL-building
\* operation and every token or userinfo operation raises "OIDC
\* configuration not loaded", returns no URL and issues no request.
C11_NoOperationWithoutConfig ==
    [][(call'.fn \in ConfigOps /\ ~ConfigLoaded(config'))
       => /\ ~call'.result.ok
          /\ call'.result.error = NotLoaded
          /\ call'.result.sent = <<>>]_vars

C11_Witness ==
    /\ client = "ready"
    /\ ~ConfigLoaded(config)
    /\ call.fn = "get_userinfo"
    /\ ~call.result.ok
    /\ call.result.sent = <<>>

\* C12: the discovery document is requested by the constructor only, and
\* once the client is built no operation changes its configuration.
C12_ConfigFetchedOnce ==
    [][/\ client # "new" => (config' = config /\ client' = client)
       /\ DiscoveryRequest \in Range(requests') => (op' = "construct" /\ Len(requests') = 1)
       /\ client' = "failed" => ~ConfigLoaded(config')]_vars

C12_Witness ==
    /\ client = "ready"
    /\ ConfigLoaded(config)
    /\ op = "auth_callback"
    /\ response.kind = "redirect"

\* C13: the constructor issues one discovery request; a callback issues at
\* most one token request followed by at most one userinfo request, and a
\* failed request ends it with an error.
C13_NoRetry ==
    [][/\ op' = "construct" => requests' = <<DiscoveryRequest>>
       /\ op' = "auth_callback"
          => /\ Len(requests') <= 2
             /\ Len(requests') >= 1 => requests'[1].method = "POST"
             /\ Len(requests') = 2 => requests'[2].method = "GET"
             /\ (requests' # <<>> /\ (tokens' = Nothing \/ userinfo' = Nothing))
                    => response'.kind = "error"]_vars

C13_Witness ==
    /\ op = "auth_callback"
    /\ Len(requests) = 1
    /\ tokens = Nothing
    /\ response.detail = AuthenticationError("Failed to exchange code for tokens")

AuthUrlOps == {"get_login_url", "get_register_url", "get_profile_url"}

\* The query a parser must read back: the four parameters given at
\* construction, then state and nonce when the caller supplied them.
SuppliedQuery(state, nonce) ==
    <<<<Spell("client_id"), Spell(client_id)>>,
      <<Spell("redirect_uri"), Spell(redirect_uri)>>,
      <<Spell("response_type"), Spell("code")>>,
      <<Spell("scope"), Spell(scope)>>>>
    \o (IF state # None THEN <<<<Spell("state"), Spell(state)>>>> ELSE <<>>)
    \o (IF nonce # None THEN <<<<Spell("nonce"), Spell(nonce)>>>> ELSE <<>>)

\* C14: parsing the query string of an authorization URL yields client_id,
\* redirect_uri, response_type=code and scope as given at construction, a
\* state parameter exactly when a state was supplied and a nonce parameter
\* exactly when a nonce was supplied, the empty string included.
C14_AuthUrlRoundTrip ==
    [][(call'.fn \in AuthUrlOps /\ call'.result.ok)
       => parse_qsl(QueryString(call'.result.value))
              = SuppliedQuery(call'.args[1], call'.args[2])]_vars

\* C15: an ID token whose number of '.'-separated segments is not three
\* is not decoded: validate_id_token raises the format error and returns
\* no claims.
C15_WrongSegmentCountRejected ==
    [][(call'.fn = "validate_id_token" /\ Len(split(call'.args[1], ".")) # 3)
       => /\ ~call'.result.ok
          /\ call'.result.error = "Invalid ID token format"
          /\ call'.result.value = None]_vars

C15_Witness ==
    /\ call.fn = "validate_id_token"
    /\ Len(split(call.args[1], ".")) = 4
    /\ split(call.args[1], ".")[2] = <<"e", "3", "0">>
    /\ ~call.result.ok

\* C16: for a three-segment token whose middle segment is the unpadded
\* base64url encoding of a JSON object, whatever its length modulo 4,
\* validate_id_token returns the mapping of that object; the padded
\* segment always has a length that is a multiple of 4.
C16_DecodesEncodedObject ==
    [][call'.fn = "validate_id_token"
       => LET parts == split(call'.args[1], ".") IN
          /\ Len(parts) = 3 => Len(Padded(parts[2])) % 4 = 0
          /\ \A pairs \in PayloadObjects :
                 call'.args[1] = EncodedTokens[pairs]
                 => /\ call'.result.ok
                    /\ call'.result.value = JsonObject(PairsMapping(pairs))]_vars

C16_Witness ==
    /\ call.fn = "validate_id_token"
    /\ call.args[1] = EncodedTokens[<<<<<<"a">>, 123>>>>]
    /\ Len(split(call.args[1], ".")[2]) % 4 = 0
    /\ call.result.ok
    /\ call.result.value = JsonObject([k \in {<<"a">>} |-> 123])

BeginOps == {"login", "register", "edit_profile"}

\* C17: login, register and edit_profile write their return_to argument
\* into the session's one return_to slot, whatever was there before, and
\* change nothing else of the session: no auth record appears and an
\* existing record stays the identical record.
C17_BeginFlowWritesReturnTo ==
    [][op' \in BeginOps
       => /\ Has(session', "return_to") /\ session'["return_to"] = arg'
          /\ AuthSlot(session') = AuthSlot(session)
          /\ DOMAIN session' = DOMAIN session \cup {"return_to"}]_vars

C17_Witness ==
    /\ op = "register"
    /\ arg \in Pages
    /\ session["return_to"] = arg
    /\ Has(session, session_auth_key)
    /\ response.kind = "redirect"

\* C18: within one callback the userinfo GET is issued only after the
\* token POST has returned a response with an access_token key and carries
\* that access token as its bearer credential; the auth record is written
\* only after the userinfo request has succeeded; a token response without
\* access_token is followed by no userinfo request.
C18_CallbackStepsOrdered ==
    [][op' = "auth_callback"
       => /\ (\E i \in DOMAIN requests' : requests'[i].method = "GET")
             => /\ Len(requests') = 2
                /\ requests'[1].method = "POST"
                /\ tokens' # Nothing
                /\ Has(tokens'[1], "access_token")
                /\ requests'[2].authorization = "Bearer " \o tokens'[1]["access_token"]
          /\ AuthSlot(session') # AuthSlot(session)
             => /\ userinfo' # Nothing
                /\ Len(requests') = 2
                /\ requests'[2].method = "GET"
                /\ AuthSlot(session') = Some(AuthRecord(tokens'[1], userinfo'[1]))
          /\ (tokens' # Nothing /\ ~Has(tokens'[1], "access_token"))
             => /\ Len(requests') = 1
                /\ requests'[1].method = "POST"
                /\ AuthSlot(session') = AuthSlot(session)]_vars

C18_Witness ==
    /\ op = "auth_callback"
    /\ Len(requests) = 2
    /\ requests[2].authorization = "Bearer " \o tokens[1]["access_token"]
    /\ userinfo # Nothing
    /\ ~hadRecord
    /\ AuthSlot(session) = Some(AuthRecord(tokens[1], userinfo[1]))

\* The record callback p assigns, from its own tokens and its own user_info.
RecordOf(p) == AuthRecord(inflight[p].tokens[1], inflight[p].user_info[1])

\* C19: with two callbacks in progress on one session, their requests and
\* session writes interleaved in any order, the auth record in the session
\* is always the complete record of the callback that wrote last: never the
\* tokens of one with the user_info of the other, never a part of a record.
C19_LastWriterWins ==
    Has(session, session_auth_key)
    => /\ lastWriter \in Callbacks
       /\ inflight[lastWriter].pc \in {"stored", "done"}
       /\ session[session_auth_key] = RecordOf(lastWriter)
       /\ DOMAIN session[session_auth_key]
              = {"access_token", "id_token", "refresh_token", "expires_in", "user_info"}

C19_Witness ==
    /\ \A p \in Callbacks : inflight[p].pc = "done" /\ inflight[p].response.kind = "redirect"
    /\ lastWriter = 1
    /\ RecordOf(1) # RecordOf(2)
    /\ session[session_auth_key] = RecordOf(1)

ReturnToSlot(sess) == IF Has(sess, "return_to") THEN Some(sess["return_to"]) ELSE Nothing

C21_RecordKeepsEveryTokenField ==
    [][(op' = "auth_callback" /\ response'.kind = "redirect")
       => \A k \in DOMAIN tokens'[1] :
              /\ Has(session'[session_auth_key], k)
              /\ session'[session_auth_key][k] = tokens'[1][k]]_vars

SuccessfulCallback == op' = "auth_callback" /\ response'.kind = "redirect"

\* C22: get_user_info() returns the claims the userinfo endpoint gave to
\* the latest successful callback of the session: a successful callback
\* makes its claims the ones returned, no other request (a failed callback
\* included) changes what an authenticated session returns, and a session
\* without a record returns nothing.
C22_UserInfoOfLastCallback ==
    [][/\ SuccessfulCallback => GetUserInfo(session') = userinfo'
       /\ (~SuccessfulCallback /\ IsAuthenticated(session'))
          => /\ IsAuthenticated(session)
             /\ GetUserInfo(session') = GetUserInfo(session)
       /\ ~Has(session', session_auth_key) => GetUserInfo(session') = Nothing]_vars

C22_Witness ==
    /\ op = "auth_callback"
    /\ response.kind = "error"
    /\ tokens # Nothing
    /\ Get(tokens[1], "access_token", None) = "tok2"
    /\ GetUserInfo(session) = Some([sub |-> "u1"])

\* The entry of the discovery document each operation reads.
Needs(fn) ==
    CASE fn \in AuthUrlOps -> "issuer"
      [] fn = "exchange_code_for_tokens" -> "token_endpoint"
      [] fn = "get_userinfo" -> "userinfo_endpoint"
      [] fn = "get_logout_url" -> "end_session_endpoint"

\* C23: a discovery document that lacks an endpoint still gives a client;
\* an operation fails, before any request, exactly when the endpoint it
\* needs is missing, and the other operations go on as with a complete
\* document.
C23_MissingEndpointFailsLate ==
    [][/\ (op' = "construct" /\ arg' = "ok") => client' = "ready"
       /\ (call'.fn \in ConfigOps /\ ConfigLoaded(config'))
          => IF Has(config', Needs(call'.fn))
             THEN call'.result.ok \/ call'.result.sent # <<>>
             ELSE ~call'.result.ok /\ call'.result.sent = <<>>]_vars

C23_Witness ==
    /\ client = "ready"
    /\ DOMAIN config = DiscoveryKeys \ {"end_session_endpoint"}
    /\ call.fn = "exchange_code_for_tokens"
    /\ call.result.ok

\* C24: when the discovery GET fails, construction raises and nothing is
\* configured; from then on no request is served, and a client that is
\* handed out was built from a document that was received.
C24_FailedDiscoveryGivesNoClient ==
    [][/\ (op' = "construct" /\ arg' = "failed")
          => /\ client' = "failed"
             /\ response'.kind = "exception"
             /\ config' = <<>>
       /\ client' = "ready" => (op' = "construct" => arg' = "ok")
       /\ client # "failed"]_vars

C24_Witness ==
    /\ client = "failed"
    /\ arg = "failed"
    /\ response = Raised("Failed to fetch OIDC configuration")
    /\ requests = <<DiscoveryRequest>>
    /\ session = <<>>

\* C25: on an authenticated session the login-required guard lets the
\* protected handler run and answer, redirects nowhere and leaves the
\* session, auth record and return_to included, as it was.
C25_GuardAdmitsAuthenticated ==
    [][(op' = "protected" /\ IsAuthenticated(session))
       => /\ handlerRan'
          /\ response' = Page
          /\ AuthSlot(session') = AuthSlot(session)
          /\ ReturnToSlot(session') = ReturnToSlot(session)
          /\ session' = session]_vars

C25_Witness ==
    /\ op = "protected"
    /\ hadRecord
    /\ IsAuthenticated(session)
    /\ handlerRan
    /\ response = Page
    /\ ReturnToSlot(session) \in {Some(p) : p \in Pages}

\* C26: whenever get_user_info() returns claims, is_authenticated() is
\* true and the record holds an access_token key.
C26_ClaimsImplyAuthenticated ==
    GetUserInfo(session) # Nothing
    => /\ IsAuthenticated(session)
       /\ Has(session[session_auth_key], "access_token")

C26_Witness ==
    /\ GetUserInfo(session) # Nothing
    /\ IsAuthenticated(session)
    /\ ~Truthy(session[session_auth_key]["access_token"])
    /\ op = "protected"
    /\ handlerRan

\* C27: a callback that fails (no code, failed exchange, token response
\* without access_token, failed userinfo request) answers with an error
\* and leaves the return_to slot as it was; without a code it sends no
\* request.
C27_FailedCallbackKeepsReturnTo ==
    [][(op' = "auth_callback" /\ userinfo' = Nothing)
       => /\ response'.kind = "error"
          /\ ReturnToSlot(session') = ReturnToSlot(session)
          /\ ~Truthy(arg') => requests' = <<>>]_vars

C27_Witness ==
    /\ op = "auth_callback"
    /\ response.kind = "error"
    /\ tokens # Nothing /\ ~Has(tokens[1], "access_token")
    /\ ReturnToSlot(session) \in {Some(p) : p \in Pages}

\* C28: an auth record appears in the session, or changes, only through a
\* callback whose token exchange and userinfo request both succeeded;
\* logout leaves none, and login, register, edit_profile, the guard and the
\* login route never create one.
C28_RecordOnlyFromCallback ==
    [][/\ (/\ Has(session', session_auth_key)
           /\ AuthSlot(session') # AuthSlot(session))
          => /\ op' = "auth_callback"
             /\ tokens' # Nothing /\ userinfo' # Nothing
             /\ Len(requests') = 2
             /\ response'.kind = "redirect"
       /\ op' = "logout" => ~Has(session', session_auth_key)
       /\ IsAuthenticated(session') => Has(session', session_auth_key)]_vars

C28_Witness ==
    /\ op = "auth_callback"
    /\ ~hadRecord
    /\ IsAuthenticated(session)
    /\ userinfo # Nothing
    /\ Len(requests) = 2
    /\ ReturnToSlot(session) = Nothing

\* C29: given the same requests with the same arguments and the same
\* answers of the provider, the Flask and the FastAPI adapter leave the
\* auth record and the return_to slot of the session in the same state
\* after every step.
C29_AdaptersAgree ==
    /\ AuthSlot(twin.flask) = AuthSlot(twin.fastapi)
    /\ ReturnToSlot(twin.flask) = ReturnToSlot(twin.fastapi)

C29_Witness ==
    /\ "login" \notin routes
    /\ AuthSlot(twin.flask) = Nothing
    /\ ReturnToSlot(twin.flask) \in {Some(u) : u \in ProtectedUrls}
    /\ twin.fastapi = twin.flask

====
